---- MODULE Spec2Model ----
(***************************************************************************)
(* The cookbook application: the Entity Store (Recipe, Food, Ingredient    *)
(* tables of cookbook/models.py), the two recipe readers of                *)
(* cookbook/services.py, and the response-cached page handler of           *)
(* cookbook/views.py.  Readers run as concurrent request threads that      *)
(* share the store and the process-wide cache.                             *)
(***************************************************************************)
EXTENDS Integers, Sequences, FiniteSets, TLC

\* ------------------------------------------------------------- bounds
NumProcs == 2
MaxRecipes == 2
MaxFoods == 1
MaxIngredients == 1
MaxCalls == 3
MaxTicks == 3

Procs == 1..NumProcs

\* Inputs of the store's writes.
RecipeNames == {"Pancakes"}
FoodNames == {"Flour"}
\* Ingredient.amount as stored, in thousandths (decimal_places=3): 1.250
\* and 0.125.
Amounts == {1250, 125}
Units == {"cup"}
\* A rename of a Recipe.
NewRecipeNames == {"Crepes"}
\* The Decimal values a caller hands to Ingredient.amount: the sign, the
\* thousandths, and the digit that follows the third decimal place.
\* 1.250, 0.125, 0.1255, -1.250 and 999.9995.
AmountInputs ==
    {[neg |-> FALSE, thousandths |-> 1250, next |-> 0],
     [neg |-> FALSE, thousandths |-> 125, next |-> 0],
     [neg |-> FALSE, thousandths |-> 125, next |-> 5],
     [neg |-> TRUE, thousandths |-> 1250, next |-> 0],
     [neg |-> FALSE, thousandths |-> 999999, next |-> 5]}

\* ------------------------------------------------- program constants
\* views.py: CACHE_TTL = 60 * 15 (seconds).
CACHE_TTL == 60 * 15

\* models.py: amount = models.DecimalField(max_digits=6, decimal_places=3).
MaxDigits == 6
DecimalPlaces == 3

\* services.py: the lookup both readers hand to prefetch_related().
PrefetchLookup == "ingredients"

\* models.py: Ingredient.recipe = models.ForeignKey(Recipe) names no
\* related_name, so the reverse accessor Django puts on Recipe is the
\* default one, <lower-cased model name>_set.
IngredientRelatedName == "ingredient_set"

\* The attributes of a Recipe instance: its fields and the reverse accessor.
RecipeAttrs == {"id", "pk", "name", IngredientRelatedName}

\* Python's None and a present value, for a local or a cache slot.
None == <<>>
Some(v) == <<v>>

VARIABLES
    recipeRows,      \* table cookbook_recipe, in the store's natural order
    foodRows,        \* table cookbook_food
    ingredientRows,  \* table cookbook_ingredient
    nextRecipe,      \* the auto-increment primary keys
    nextFood,
    nextIngredient,
    cache,           \* django.core.cache.cache: [recipes, page]
    clock,           \* seconds since start
    ticks,           \* how often the clock has advanced
    op,              \* per thread: the entry point it is running
    pc,              \* per thread: its position
    rows,            \* per thread: the rows of the Recipe query
    recipes,         \* per thread: the local `recipes`
    queries,         \* per thread: len(connection.queries) since reset_queries()
    seen,            \* per thread: the cache slot as the membership test saw it
    response,        \* per thread: the response of the page handler
    arrival,         \* per thread: what its request met at the page cache
    views,           \* per thread: the store as its fetch found it, at each query
    handled,         \* the response the page handler produced last: when, and what
    fetches,         \* per entry point: evaluations of the Recipe queryset
    done,            \* per entry point: calls that have ended
    started          \* calls started

storeVars == <<recipeRows, foodRows, ingredientRows, nextRecipe, nextFood, nextIngredient>>
procVars == <<op, pc, rows, recipes, queries, seen, response, arrival, views>>
histVars == <<fetches, done, started, handled>>
timeVars == <<clock, ticks>>
vars == <<storeVars, cache, timeVars, procVars, histVars>>

Ops == {"with_cache", "without_cache", "view"}

\* --------------------------------------------------------- the store
Ids(table) == {table[i].id : i \in 1..Len(table)}

RECURSIVE Filter(_, _, _)
\* The rows of `table` whose field named by `col` is not `id`, order kept.
Filter(table, col, id) ==
    IF table = <<>> THEN <<>>
    ELSE LET h == Head(table)
             t == Filter(Tail(table), col, id)
         IN IF h[col] = id THEN t ELSE <<h>> \o t

RECURSIVE IngredientsOf(_, _)
\* The ingredient rows that reference recipe `rid`, in table order: the
\* related objects the prefetch attaches to one Recipe.
IngredientsOf(ings, rid) ==
    IF ings = <<>> THEN <<>>
    ELSE LET h == Head(ings)
             t == IngredientsOf(Tail(ings), rid)
         IN IF h.recipe_id = rid
            THEN <<[id |-> h.id, food_id |-> h.food_id, amount |-> h.amount,
                    unit_of_measure |-> h.unit_of_measure]>> \o t
            ELSE t

\* The second query of the prefetch: every fetched Recipe with the
\* ingredients that reference it.
PrefetchIngredients(rs, ings) ==
    [i \in 1..Len(rs) |->
        [id |-> rs[i].id, name |-> rs[i].name,
         ingredients |-> IngredientsOf(ings, rs[i].id)]]

\* prefetch_related_objects() resolves the lookup with get_prefetcher(): is it
\* an attribute of the Recipe class?  'ingredients' is not: the accessor that
\* models.py gives Recipe is ingredient_set.
LookupFound == PrefetchLookup \in RecipeAttrs

\* The tables of models.py.
Tables == {"cookbook_recipe", "cookbook_food", "cookbook_ingredient"}

RECURSIVE CountIngredients(_)
\* The Ingredient instances attached to the Recipes of a fetched list.
CountIngredients(list) ==
    IF list = <<>> THEN 0
    ELSE Len(Head(list).ingredients) + CountIngredients(Tail(list))

\* The SELECTs on cookbook_food that reading every ingredient's food name
\* costs after the fetch.  The lookup names the ingredients only, so
\* Ingredient.food is not loaded with them: each instance loads its Food on
\* first access, one query apiece.
FoodReads(list) ==
    IF PrefetchLookup = "ingredients__food" THEN 0 ELSE CountIngredients(list)

\* A save that also invalidates the cached recipe list.
CreateRecipeInvalidating(name) ==
    /\ nextRecipe <= MaxRecipes
    /\ recipeRows' = Append(recipeRows, [id |-> nextRecipe, name |-> name])
    /\ nextRecipe' = nextRecipe + 1
    /\ cache' = [cache EXCEPT !.recipes = None]
    /\ UNCHANGED <<foodRows, ingredientRows, nextFood, nextIngredient>>
    /\ UNCHANGED <<timeVars, procVars, histVars>>

\* DecimalField on save: the value is quantized to decimal_places digits
\* after the point in a context of precision max_digits (rounding half to
\* even); the result is in thousandths.  The field has no validator on the
\* sign.
Quantize(d) ==
    LET up == d.next > 5 \/ (d.next = 5 /\ d.thousandths % 2 = 1)
        m == IF up THEN d.thousandths + 1 ELSE d.thousandths
    IN IF d.neg THEN 0 - m ELSE m

\* The quantized value needs more than max_digits digits: quantize signals
\* InvalidOperation and the save stores nothing.
Overflows(d) ==
    LET q == Quantize(d)
    IN (IF q < 0 THEN 0 - q ELSE q) >= 10^MaxDigits

CreateRecipe(name) ==
    /\ nextRecipe <= MaxRecipes
    /\ recipeRows' = Append(recipeRows, [id |-> nextRecipe, name |-> name])
    /\ nextRecipe' = nextRecipe + 1
    /\ UNCHANGED <<foodRows, ingredientRows, nextFood, nextIngredient>>
    /\ UNCHANGED <<cache, timeVars, procVars, histVars>>

RenameRecipe(id, name) ==
    /\ id \in Ids(recipeRows)
    /\ recipeRows' = [i \in 1..Len(recipeRows) |->
           IF recipeRows[i].id = id
           THEN [recipeRows[i] EXCEPT !.name = name]
           ELSE recipeRows[i]]
    /\ UNCHANGED <<foodRows, ingredientRows, nextRecipe, nextFood, nextIngredient>>
    /\ UNCHANGED <<cache, timeVars, procVars, histVars>>

\* A delete that leaves the referencing Ingredient rows behind.
DeleteRecipeKeepingIngredients(id) ==
    /\ id \in Ids(recipeRows)
    /\ recipeRows' = Filter(recipeRows, "id", id)
    /\ UNCHANGED <<foodRows, ingredientRows, nextRecipe, nextFood, nextIngredient>>
    /\ UNCHANGED <<cache, timeVars, procVars, histVars>>

\* A ForeignKey's default on_delete is CASCADE.
DeleteRecipe(id) ==
    /\ id \in Ids(recipeRows)
    /\ recipeRows' = Filter(recipeRows, "id", id)
    /\ ingredientRows' = Filter(ingredientRows, "recipe_id", id)
    /\ UNCHANGED <<foodRows, nextRecipe, nextFood, nextIngredient>>
    /\ UNCHANGED <<cache, timeVars, procVars, histVars>>

CreateFood(name) ==
    /\ nextFood <= MaxFoods
    /\ foodRows' = Append(foodRows, [id |-> nextFood, name |-> name])
    /\ nextFood' = nextFood + 1
    /\ UNCHANGED <<recipeRows, ingredientRows, nextRecipe, nextIngredient>>
    /\ UNCHANGED <<cache, timeVars, procVars, histVars>>

DeleteFood(id) ==
    /\ id \in Ids(foodRows)
    /\ foodRows' = Filter(foodRows, "id", id)
    /\ ingredientRows' = Filter(ingredientRows, "food_id", id)
    /\ UNCHANGED <<recipeRows, nextRecipe, nextFood, nextIngredient>>
    /\ UNCHANGED <<cache, timeVars, procVars, histVars>>

\* recipe and food are ForeignKeys without null=True: the row is stored only
\* with both referents present.
CreateIngredient(rid, fid, amount, unit) ==
    /\ nextIngredient <= MaxIngredients
    /\ rid \in Ids(recipeRows)
    /\ fid \in Ids(foodRows)
    /\ ~Overflows(amount)
    /\ ingredientRows' = Append(ingredientRows,
           [id |-> nextIngredient, recipe_id |-> rid, food_id |-> fid,
            amount |-> Quantize(amount), unit_of_measure |-> unit])
    /\ nextIngredient' = nextIngredient + 1
    /\ UNCHANGED <<recipeRows, foodRows, nextRecipe, nextFood>>
    /\ UNCHANGED <<cache, timeVars, procVars, histVars>>

\* A save whose quantize does not signal on a result wider than max_digits.
UpdateAmountUnchecked(id, amount) ==
    /\ id \in Ids(ingredientRows)
    /\ ingredientRows' = [i \in 1..Len(ingredientRows) |->
           IF ingredientRows[i].id = id
           THEN [ingredientRows[i] EXCEPT !.amount = Quantize(amount)]
           ELSE ingredientRows[i]]
    /\ UNCHANGED <<recipeRows, foodRows, nextRecipe, nextFood, nextIngredient>>
    /\ UNCHANGED <<cache, timeVars, procVars, histVars>>

UpdateAmount(id, amount) ==
    /\ id \in Ids(ingredientRows)
    /\ ~Overflows(amount)
    /\ ingredientRows' = [i \in 1..Len(ingredientRows) |->
           IF ingredientRows[i].id = id
           THEN [ingredientRows[i] EXCEPT !.amount = Quantize(amount)]
           ELSE ingredientRows[i]]
    /\ UNCHANGED <<recipeRows, foodRows, nextRecipe, nextFood, nextIngredient>>
    /\ UNCHANGED <<cache, timeVars, procVars, histVars>>

DeleteIngredient(id) ==
    /\ id \in Ids(ingredientRows)
    /\ ingredientRows' = Filter(ingredientRows, "id", id)
    /\ UNCHANGED <<recipeRows, foodRows, nextRecipe, nextFood, nextIngredient>>
    /\ UNCHANGED <<cache, timeVars, procVars, histVars>>

StoreWrite ==
    \/ \E n \in RecipeNames : CreateRecipe(n)
    \/ \E id \in 1..MaxRecipes : DeleteRecipe(id)
    \/ \E n \in FoodNames : CreateFood(n)
    \/ \E id \in 1..MaxFoods : DeleteFood(id)
    \/ \E id \in 1..MaxRecipes, n \in NewRecipeNames : RenameRecipe(id, n)
    \/ \E rid \in 1..MaxRecipes, fid \in 1..MaxFoods, a \in AmountInputs, u \in Units :
          CreateIngredient(rid, fid, a, u)
    \/ \E id \in 1..MaxIngredients, a \in AmountInputs : UpdateAmount(id, a)
    \/ \E id \in 1..MaxIngredients : DeleteIngredient(id)

\* --------------------------------------------------------- the cache
\* The entry 'recipes' is set with no timeout of its own, so the cache's
\* default expiry removes it at a time the program does not choose.
ExpireRecipes ==
    /\ cache.recipes # None
    /\ cache' = [cache EXCEPT !.recipes = None]
    /\ UNCHANGED <<storeVars, timeVars, procVars, histVars>>

\* ------------------------------------------------------- the readers
\* Where a reader goes once its list(...) has been built.
AfterFetch(o) ==
    CASE o = "with_cache" -> "set"
      [] o = "without_cache" -> "ret"
      [] OTHER -> "render"

\* get_recipes_with_cache(): entry, reset_queries().
CallWithCache(p) ==
    /\ pc[p] = "idle"
    /\ started < MaxCalls
    /\ started' = started + 1
    /\ op' = [op EXCEPT ![p] = "with_cache"]
    /\ pc' = [pc EXCEPT ![p] = "test"]
    /\ queries' = [queries EXCEPT ![p] = 0]
    /\ UNCHANGED <<storeVars, cache, timeVars, rows, recipes, seen, response, arrival, views, fetches, done, handled>>

\* A slip: the reader without cache going through the cache test.
CallWithoutCacheThroughCache(p) ==
    /\ pc[p] = "idle"
    /\ started < MaxCalls
    /\ started' = started + 1
    /\ op' = [op EXCEPT ![p] = "without_cache"]
    /\ pc' = [pc EXCEPT ![p] = "test"]
    /\ queries' = [queries EXCEPT ![p] = 0]
    /\ UNCHANGED <<storeVars, cache, timeVars, rows, recipes, seen, response, arrival, views, fetches, done, handled>>

\* get_recipes_without_cache(): entry, reset_queries().
CallWithoutCache(p) ==
    /\ pc[p] = "idle"
    /\ started < MaxCalls
    /\ started' = started + 1
    /\ op' = [op EXCEPT ![p] = "without_cache"]
    /\ pc' = [pc EXCEPT ![p] = "query"]
    /\ queries' = [queries EXCEPT ![p] = 0]
    /\ UNCHANGED <<storeVars, cache, timeVars, rows, recipes, seen, response, arrival, views, fetches, done, handled>>

\* if 'recipes' in cache:
TestCache(p) ==
    /\ pc[p] = "test"
    /\ seen' = [seen EXCEPT ![p] = cache.recipes]
    /\ pc' = [pc EXCEPT ![p] = IF cache.recipes # None THEN "get" ELSE "query"]
    /\ UNCHANGED <<storeVars, cache, timeVars, op, rows, recipes, queries, response, arrival, views, histVars>>

\* recipes = cache.get('recipes'): None when the key is not there.
CacheGet(p) ==
    /\ pc[p] = "get"
    /\ recipes' = [recipes EXCEPT ![p] = cache.recipes]
    /\ pc' = [pc EXCEPT ![p] = "ret"]
    /\ UNCHANGED <<storeVars, cache, timeVars, op, rows, queries, seen, response, arrival, views, histVars>>

\* list(Recipe.objects.prefetch_related('ingredients')), first half: the
\* queryset is evaluated, one SELECT over the Recipe table.
QueryRecipes(p) ==
    /\ pc[p] = "query"
    /\ rows' = [rows EXCEPT ![p] = recipeRows]
    /\ queries' = [queries EXCEPT ![p] = @ + 1]
    /\ fetches' = [fetches EXCEPT ![op[p]] = @ + 1]
    /\ pc' = [pc EXCEPT ![p] = "prefetch"]
    /\ views' = [views EXCEPT ![p] = {PrefetchIngredients(recipeRows, ingredientRows)}]
    /\ UNCHANGED <<storeVars, cache, timeVars, op, recipes, seen, response, arrival, done, started, handled>>

\* The SELECT fails in the store (the database is unreachable, say): the
\* driver's exception is raised out of list(...).
QueryFails(p) ==
    /\ pc[p] = "query"
    /\ fetches' = [fetches EXCEPT ![op[p]] = @ + 1]
    /\ pc' = [pc EXCEPT ![p] = "raised"]
    /\ UNCHANGED <<storeVars, cache, timeVars, op, rows, recipes, queries, seen, response, arrival, views, done, started, handled>>

\* Second half: prefetch_related_objects().  Nothing to do for no rows;
\* otherwise the lookup is resolved on the first Recipe, and either the
\* ingredients are read with one more SELECT or AttributeError is raised
\* ("Cannot find 'ingredients' on Recipe object, 'ingredients' is an invalid
\* parameter to prefetch_related()").
Prefetch(p) ==
    /\ pc[p] = "prefetch"
    /\ IF rows[p] = <<>>
       THEN /\ recipes' = [recipes EXCEPT ![p] = Some(<<>>)]
            /\ pc' = [pc EXCEPT ![p] = AfterFetch(op[p])]
            /\ UNCHANGED <<queries, views>>
       ELSE IF LookupFound
       THEN /\ recipes' = [recipes EXCEPT ![p] =
                              Some(PrefetchIngredients(rows[p], ingredientRows))]
            /\ queries' = [queries EXCEPT ![p] = @ + 1]
            /\ views' = [views EXCEPT ![p] =
                            @ \cup {PrefetchIngredients(recipeRows, ingredientRows)}]
            /\ pc' = [pc EXCEPT ![p] = AfterFetch(op[p])]
       ELSE /\ pc' = [pc EXCEPT ![p] = "raised"]
            /\ UNCHANGED <<recipes, queries, views>>
    /\ UNCHANGED <<storeVars, cache, timeVars, op, rows, seen, response, arrival, histVars>>

\* A slip: the miss branch without its cache write.
CacheSetDropped(p) ==
    /\ pc[p] = "set"
    /\ pc' = [pc EXCEPT ![p] = "ret"]
    /\ UNCHANGED <<storeVars, cache, timeVars, op, rows, recipes, queries, seen, response, arrival, views, histVars>>

\* cache.set('recipes', recipes)
CacheSet(p) ==
    /\ pc[p] = "set"
    /\ cache' = [cache EXCEPT !.recipes = recipes[p]]
    /\ pc' = [pc EXCEPT ![p] = "ret"]
    /\ UNCHANGED <<storeVars, timeVars, op, rows, recipes, queries, seen, response, arrival, views, histVars>>

\* return recipes
Return(p) ==
    /\ pc[p] = "ret"
    /\ done' = [done EXCEPT ![op[p]] = @ + 1]
    /\ pc' = [pc EXCEPT ![p] = "idle"]
    /\ rows' = [rows EXCEPT ![p] = <<>>]
    /\ recipes' = [recipes EXCEPT ![p] = None]
    /\ seen' = [seen EXCEPT ![p] = None]
    /\ queries' = [queries EXCEPT ![p] = 0]
    /\ views' = [views EXCEPT ![p] = {}]
    /\ UNCHANGED <<storeVars, cache, timeVars, op, response, arrival, fetches, started, handled>>

\* A handler that swallows the exception and falls back to an empty list,
\* which it caches and returns.
PropagateSwallowed(p) ==
    /\ pc[p] = "raised"
    /\ recipes' = [recipes EXCEPT ![p] = Some(<<>>)]
    /\ cache' = [cache EXCEPT !.recipes = Some(<<>>)]
    /\ pc' = [pc EXCEPT ![p] = "ret"]
    /\ UNCHANGED <<storeVars, timeVars, op, rows, queries, seen, response, arrival, views, histVars>>

\* The exception leaves the entry point: nothing after the raising line runs.
Propagate(p) ==
    /\ pc[p] = "raised"
    /\ done' = [done EXCEPT ![op[p]] = @ + 1]
    /\ pc' = [pc EXCEPT ![p] = "idle"]
    /\ rows' = [rows EXCEPT ![p] = <<>>]
    /\ recipes' = [recipes EXCEPT ![p] = None]
    /\ seen' = [seen EXCEPT ![p] = None]
    /\ queries' = [queries EXCEPT ![p] = 0]
    /\ response' = [response EXCEPT ![p] = None]
    /\ arrival' = [arrival EXCEPT ![p] = None]
    /\ views' = [views EXCEPT ![p] = {}]
    /\ handled' = IF op[p] = "view"
                  THEN Some([at |-> clock, out |-> None])
                  ELSE handled
    /\ UNCHANGED <<storeVars, cache, timeVars, op, fetches, started>>

\* -------------------------------------------------- the page handler
\* render(request, 'cookbook/recipes.html', {'recipes': ...}): the page is a
\* function of the template and of the context it is given.
RenderPage(rs) == [template |-> "cookbook/recipes.html", recipes |-> rs]

\* What a lookup of the cached page can answer at time `now`: the entry is
\* there before its expiry and gone after it; at the very second of expiry
\* the cache backend decides.
PageHits(now) ==
    IF cache.page = None THEN {FALSE}
    ELSE IF now < cache.page[1].expires THEN {TRUE}
    ELSE IF now = cache.page[1].expires THEN {TRUE, FALSE}
    ELSE {FALSE}

\* A handler whose get_recipes is bound to the reader with cache.
RequestThroughDataCache(p) ==
    /\ pc[p] = "idle"
    /\ started < MaxCalls
    /\ started' = started + 1
    /\ op' = [op EXCEPT ![p] = "view"]
    /\ queries' = [queries EXCEPT ![p] = 0]
    /\ \E hit \in PageHits(clock) :
          /\ arrival' = [arrival EXCEPT ![p] =
                 Some([at |-> clock,
                       within |-> handled # None /\ clock < handled[1].at + CACHE_TTL,
                       expect |-> IF handled # None THEN handled[1].out ELSE None,
                       expired |-> cache.page # None /\ ~hit])]
          /\ IF hit
             THEN /\ response' = [response EXCEPT ![p] = Some(cache.page[1].body)]
                  /\ pc' = [pc EXCEPT ![p] = "respond"]
             ELSE /\ response' = [response EXCEPT ![p] = None]
                  /\ pc' = [pc EXCEPT ![p] = "test"]
    /\ UNCHANGED <<storeVars, cache, timeVars, rows, recipes, seen, views, fetches, done, handled>>

\* @cache_page(CACHE_TTL), on the way in: a cached response answers the
\* request; otherwise recipes_view runs and calls get_recipes(), which is
\* get_recipes_without_cache (reset_queries(), then the fetch).
Request(p) ==
    /\ pc[p] = "idle"
    /\ started < MaxCalls
    /\ started' = started + 1
    /\ op' = [op EXCEPT ![p] = "view"]
    /\ queries' = [queries EXCEPT ![p] = 0]
    /\ \E hit \in PageHits(clock) :
          /\ arrival' = [arrival EXCEPT ![p] =
                 Some([at |-> clock,
                       within |-> handled # None /\ clock < handled[1].at + CACHE_TTL,
                       expect |-> IF handled # None THEN handled[1].out ELSE None,
                       expired |-> cache.page # None /\ ~hit])]
          /\ IF hit
             THEN /\ response' = [response EXCEPT ![p] = Some(cache.page[1].body)]
                  /\ pc' = [pc EXCEPT ![p] = "respond"]
             ELSE /\ response' = [response EXCEPT ![p] = None]
                  /\ pc' = [pc EXCEPT ![p] = "query"]
    /\ UNCHANGED <<storeVars, cache, timeVars, rows, recipes, seen, views, fetches, done, handled>>

\* recipes_view's render(), and @cache_page on the way out: the response is
\* stored for CACHE_TTL seconds.
Render(p) ==
    /\ pc[p] = "render"
    /\ response' = [response EXCEPT ![p] = Some(RenderPage(recipes[p][1]))]
    /\ cache' = [cache EXCEPT !.page =
                    Some([body |-> RenderPage(recipes[p][1]),
                          expires |-> clock + CACHE_TTL])]
    /\ handled' = Some([at |-> clock, out |-> Some(RenderPage(recipes[p][1]))])
    /\ pc' = [pc EXCEPT ![p] = "respond"]
    /\ UNCHANGED <<storeVars, timeVars, op, rows, recipes, queries, seen, arrival, views,
                   fetches, done, started>>

\* The response leaves the handler.
Respond(p) ==
    /\ pc[p] = "respond"
    /\ done' = [done EXCEPT !["view"] = @ + 1]
    /\ pc' = [pc EXCEPT ![p] = "idle"]
    /\ rows' = [rows EXCEPT ![p] = <<>>]
    /\ recipes' = [recipes EXCEPT ![p] = None]
    /\ queries' = [queries EXCEPT ![p] = 0]
    /\ response' = [response EXCEPT ![p] = None]
    /\ arrival' = [arrival EXCEPT ![p] = None]
    /\ views' = [views EXCEPT ![p] = {}]
    /\ UNCHANGED <<storeVars, cache, timeVars, op, seen, fetches, started, handled>>

\* Time passes: a second, or one second less than the time-to-live.
TickSteps == {1, CACHE_TTL - 1}

Tick(dt) ==
    /\ ticks < MaxTicks
    /\ ticks' = ticks + 1
    /\ clock' = clock + dt
    /\ UNCHANGED <<storeVars, cache, procVars, histVars>>

\* ------------------------------------------------------ specification
\* The state after construction: empty tables, an empty cache.
Init ==
    /\ recipeRows = <<>>
    /\ foodRows = <<>>
    /\ ingredientRows = <<>>
    /\ nextRecipe = 1
    /\ nextFood = 1
    /\ nextIngredient = 1
    /\ cache = [recipes |-> None, page |-> None]
    /\ clock = 0
    /\ ticks = 0
    /\ op = [p \in Procs |-> "with_cache"]
    /\ pc = [p \in Procs |-> "idle"]
    /\ rows = [p \in Procs |-> <<>>]
    /\ recipes = [p \in Procs |-> None]
    /\ queries = [p \in Procs |-> 0]
    /\ seen = [p \in Procs |-> None]
    /\ response = [p \in Procs |-> None]
    /\ arrival = [p \in Procs |-> None]
    /\ views = [p \in Procs |-> {}]
    /\ handled = None
    /\ fetches = [o \in Ops |-> 0]
    /\ done = [o \in Ops |-> 0]
    /\ started = 0

\* The Entity Store on its own, written from empty.
SpecStore == Init /\ [][StoreWrite]_vars

\* A store that earlier writes have left behind: nr recipes, ni ingredients
\* (the i-th on recipe ((i - 1) % nr) + 1) and the food they are made of.
StoreOf(nr, ni) ==
    LET nf == IF ni > 0 THEN 1 ELSE 0
    IN  /\ recipeRows = [i \in 1..nr |-> [id |-> i, name |-> "Pancakes"]]
        /\ foodRows = [i \in 1..nf |-> [id |-> i, name |-> "Flour"]]
        /\ ingredientRows = [i \in 1..ni |->
               [id |-> i, recipe_id |-> ((i - 1) % nr) + 1, food_id |-> 1,
                amount |-> 1250, unit_of_measure |-> "cup"]]
        /\ nextRecipe = nr + 1
        /\ nextFood = nf + 1
        /\ nextIngredient = ni + 1

\* The application starts over a store that holds what earlier runs wrote.
InitStored ==
    /\ \E nr \in 0..MaxRecipes, ni \in 0..MaxIngredients :
          /\ ni > 0 => nr > 0
          /\ StoreOf(nr, ni)
    /\ cache = [recipes |-> None, page |-> None]
    /\ clock = 0
    /\ ticks = 0
    /\ op = [p \in Procs |-> "with_cache"]
    /\ pc = [p \in Procs |-> "idle"]
    /\ rows = [p \in Procs |-> <<>>]
    /\ recipes = [p \in Procs |-> None]
    /\ queries = [p \in Procs |-> 0]
    /\ seen = [p \in Procs |-> None]
    /\ response = [p \in Procs |-> None]
    /\ arrival = [p \in Procs |-> None]
    /\ views = [p \in Procs |-> {}]
    /\ handled = None
    /\ fetches = [o \in Ops |-> 0]
    /\ done = [o \in Ops |-> 0]
    /\ started = 0

\* Writes to the table the readers' query reads; a deleted Recipe takes its
\* ingredients with it.
RecipeWrite ==
    \/ \E n \in RecipeNames : CreateRecipe(n)
    \/ \E id \in 1..MaxRecipes : DeleteRecipe(id)

\* Both readers as concurrent threads, with recipe writes and cache expiry.
Next ==
    \/ RecipeWrite
    \/ ExpireRecipes
    \/ \E p \in Procs : CallWithCache(p)
    \/ \E p \in Procs : CallWithoutCache(p)
    \/ \E p \in Procs : TestCache(p)
    \/ \E p \in Procs : CacheGet(p)
    \/ \E p \in Procs : QueryRecipes(p)
    \/ \E p \in Procs : Prefetch(p)
    \/ \E p \in Procs : CacheSet(p)
    \/ \E p \in Procs : Return(p)
    \/ \E p \in Procs : Propagate(p)

Spec == InitStored /\ [][Next]_vars

\* The page handler under load: requests, recipe writes and passing time.
NextView ==
    \/ RecipeWrite
    \/ \E dt \in TickSteps : Tick(dt)
    \/ \E p \in Procs : Request(p)
    \/ \E p \in Procs : QueryRecipes(p)
    \/ \E p \in Procs : Prefetch(p)
    \/ \E p \in Procs : Render(p)
    \/ \E p \in Procs : Respond(p)
    \/ \E p \in Procs : Propagate(p)

SpecView == InitStored /\ [][NextView]_vars

\* Concurrent cached readers over a store nobody writes and a cache that
\* drops nothing.
NextQuiet ==
    \/ \E p \in Procs : CallWithCache(p)
    \/ \E p \in Procs : TestCache(p)
    \/ \E p \in Procs : CacheGet(p)
    \/ \E p \in Procs : QueryRecipes(p)
    \/ \E p \in Procs : Prefetch(p)
    \/ \E p \in Procs : CacheSet(p)
    \/ \E p \in Procs : Return(p)
    \/ \E p \in Procs : Propagate(p)

SpecQuiet == InitStored /\ [][NextQuiet]_vars

\* A call made when no other call is running.
\* The reader with cache over a store whose queries can fail.
NextFail ==
    \E p \in Procs :
        \/ CallWithCache(p)
        \/ TestCache(p)
        \/ CacheGet(p)
        \/ QueryRecipes(p)
        \/ QueryFails(p)
        \/ Prefetch(p)
        \/ CacheSet(p)
        \/ Return(p)
        \/ Propagate(p)

SpecFail == InitStored /\ [][NextFail]_vars

CallWithCacheAlone(p) ==
    /\ \A q \in Procs : pc[q] = "idle"
    /\ CallWithCache(p)

\* The same, the calls made one after another.
NextSeq ==
    \/ \E p \in Procs : CallWithCacheAlone(p)
    \/ \E p \in Procs : TestCache(p)
    \/ \E p \in Procs : CacheGet(p)
    \/ \E p \in Procs : QueryRecipes(p)
    \/ \E p \in Procs : Prefetch(p)
    \/ \E p \in Procs : CacheSet(p)
    \/ \E p \in Procs : Return(p)
    \/ \E p \in Procs : Propagate(p)

SpecSeq == InitStored /\ [][NextSeq]_vars

\* The three entry points side by side: both readers and the page handler.
NextLayers ==
    \E p \in Procs :
        \/ CallWithCache(p)
        \/ CallWithoutCache(p)
        \/ Request(p)
        \/ TestCache(p)
        \/ CacheGet(p)
        \/ QueryRecipes(p)
        \/ Prefetch(p)
        \/ CacheSet(p)
        \/ Return(p)
        \/ Render(p)
        \/ Respond(p)
        \/ Propagate(p)

SpecLayers == InitStored /\ [][NextLayers]_vars

\* The reader with cache, called by one thread time and again, while the
\* store is written: rows of the three tables are created and deleted, a
\* Recipe is renamed.  The cache evicts nothing.
Caller == CHOOSE p \in Procs : TRUE

StaleWrite ==
    \/ \E n \in RecipeNames : CreateRecipe(n)
    \/ \E id \in 1..MaxRecipes, n \in NewRecipeNames : RenameRecipe(id, n)
    \/ \E id \in 1..MaxRecipes : DeleteRecipe(id)
    \/ \E n \in FoodNames : CreateFood(n)
    \/ \E id \in 1..MaxFoods : DeleteFood(id)
    \/ \E rid \in 1..MaxRecipes, fid \in 1..MaxFoods, u \in Units :
          CreateIngredient(rid, fid, [neg |-> FALSE, thousandths |-> 1250, next |-> 0], u)
    \/ \E id \in 1..MaxIngredients : DeleteIngredient(id)

NextStale ==
    \/ StaleWrite
    \/ CallWithCache(Caller)
    \/ TestCache(Caller)
    \/ CacheGet(Caller)
    \/ QueryRecipes(Caller)
    \/ Prefetch(Caller)
    \/ CacheSet(Caller)
    \/ Return(Caller)
    \/ Propagate(Caller)

SpecStale == Init /\ [][NextStale]_vars

\* ------------------------------------------------------------- claims
\* The list a fetch that ran to its end, over rows `rs`, hands back.
WellFormed(list, rs) ==
    /\ Len(list) = Len(rs)
    /\ \A i \in 1..Len(rs) :
          /\ list[i].id = rs[i].id
          /\ list[i].name = rs[i].name
          /\ \A j \in 1..Len(list[i].ingredients) :
                list[i].ingredients[j].amount \in Amounts

\* C1: calls of get_recipes_with_cache made one after another, from a cache
\* without 'recipes', over a store nobody writes: once a call has ended, one
\* Entity Store fetch has been issued in total, and no later call adds one.
C1_OneFetchInTotal ==
    done["with_cache"] >= 1 => fetches["with_cache"] = 1

\* C2: every call of get_recipes_with_cache ends by returning a sequence of
\* complete recipe records: the snapshot the cache held when the call tested
\* for it, or else the store's contents as the call fetched them; it never
\* raises and never returns None.
C2_ReturnsSnapshot ==
    \A p \in Procs : op[p] = "with_cache" =>
        /\ pc[p] # "raised"
        /\ pc[p] = "ret" =>
              /\ recipes[p] # None
              /\ seen[p] # None => recipes[p] = seen[p]
              /\ seen[p] = None => WellFormed(recipes[p][1], rows[p])

\* C3: a call that found 'recipes' in the cache returns exactly the value
\* that was cached and has issued no query.
C3_HitReturnsCached ==
    \A p \in Procs :
        (op[p] = "with_cache" /\ pc[p] = "ret" /\ seen[p] # None) =>
            /\ recipes[p] = seen[p]
            /\ queries[p] = 0

\* C4: a call that did not find 'recipes' in the cache fetches once, stores
\* what it fetched under 'recipes' and returns it: it reaches its return with
\* a sequence in hand and at least one query issued, and never raises.
C4_MissFetchesStoresReturns ==
    \A p \in Procs : (op[p] = "with_cache" /\ seen[p] = None) =>
        /\ pc[p] # "raised"
        /\ pc[p] = "ret" => (recipes[p] # None /\ queries[p] >= 1)

\* The calls of entry point `o` that are past their fetch and have not ended.
PastFetch(o) ==
    Cardinality({p \in Procs : op[p] = o /\ pc[p] \in {"prefetch", "ret", "raised"}})

\* C5: get_recipes_without_cache issues one Entity Store fetch per call,
\* whatever the cache holds: the fetches issued equal the calls that have
\* ended plus those past their fetch, so N ended calls have issued N fetches.
C5_FetchPerCall ==
    fetches["without_cache"] = done["without_cache"] + PastFetch("without_cache")

\* C5's case: two calls have ended, with 'recipes' in the cache the while.
C5_TwoCallsTwoFetches ==
    /\ done["without_cache"] = 2
    /\ fetches["without_cache"] = 2
    /\ cache.recipes # None
    /\ \A p \in Procs : pc[p] = "idle"

\* C6: a request that arrives less than CACHE_TTL seconds after the handler
\* last ran for an earlier request is answered with that request's response
\* and issues no query, whatever was written to the store in between.
C6_WithinTtlServedFromCache ==
    \A p \in Procs :
        (op[p] = "view" /\ arrival[p] # None /\ arrival[p][1].within) =>
            /\ pc[p] = "respond"
            /\ queries[p] = 0
            /\ response[p] = arrival[p][1].expect

\* C7: a request that finds the cached response expired runs the handler
\* again: it fetches, and it ends with a response rendered from the store as
\* fetched, which is then the cached response; it does not raise.
C7_AfterExpiryRefetches ==
    \A p \in Procs :
        (op[p] = "view" /\ arrival[p] # None /\ arrival[p][1].expired) =>
            /\ pc[p] # "raised"
            /\ pc[p] = "respond" =>
                  /\ queries[p] >= 1
                  /\ response[p] # None
                  /\ WellFormed(response[p][1].recipes, rows[p])

\* C8: with no store writes, concurrent get_recipes_with_cache calls that
\* start without 'recipes' in the cache all return the store's contents, and
\* when all have ended the cache holds that sequence under 'recipes'.
C8_ConcurrentPopulationBenign ==
    LET expected == PrefetchIngredients(recipeRows, ingredientRows)
    IN  started >= 2 =>
            /\ \A p \in Procs :
                  /\ pc[p] # "raised"
                  /\ pc[p] = "ret" => recipes[p] = Some(expected)
            /\ (\A p \in Procs : pc[p] = "idle") => cache.recipes = Some(expected)

\* C9: a fetch (a cache miss, or any call of the reader without cache) ends
\* with one record per Recipe row, in the store's order, each carrying its
\* ingredients; it does not raise.
C9_ResultContentAndOrder ==
    \A p \in Procs :
        (op[p] \in {"with_cache", "without_cache"} /\ seen[p] = None) =>
            /\ pc[p] # "raised"
            /\ pc[p] \in {"set", "ret"} => WellFormed(recipes[p][1], rows[p])

\* C10: a call of get_recipes_with_cache that misses the cache and finds no
\* recipe in the store returns the empty sequence, and its cache write leaves
\* 'recipes' mapped to the empty sequence.
C10_EmptyStore ==
    /\ [](\A p \in Procs :
            (op[p] = "with_cache" /\ pc[p] = "ret" /\ seen[p] = None /\ rows[p] = <<>>)
                => recipes[p] = Some(<<>>))
    /\ [][\A p \in Procs :
            (op[p] = "with_cache" /\ pc[p] = "set" /\ pc'[p] = "ret" /\ rows[p] = <<>>)
                => cache'.recipes = Some(<<>>)]_vars

\* C10's case: the store is empty, the call missed, it is about to return
\* the empty sequence and the cache holds the empty sequence.
C10_EmptyStorePopulated ==
    \E p \in Procs :
        /\ op[p] = "with_cache" /\ pc[p] = "ret" /\ seen[p] = None
        /\ recipeRows = <<>> /\ rows[p] = <<>>
        /\ queries[p] = 1
        /\ recipes[p] = Some(<<>>)
        /\ cache.recipes = Some(<<>>)

\* C11: under every sequence of creates, updates and deletes of Recipe, Food
\* and Ingredient rows, every stored Ingredient references one Recipe row
\* and one Food row that exist, and a delete of a Recipe or a Food leaves no
\* Ingredient that referenced it.
Referents(table, id) == Cardinality({i \in 1..Len(table) : table[i].id = id})

C11_ReferentialIntegrity ==
    /\ [](\A i \in 1..Len(ingredientRows) :
            /\ Referents(recipeRows, ingredientRows[i].recipe_id) = 1
            /\ Referents(foodRows, ingredientRows[i].food_id) = 1)
    /\ [][(\A rid \in Ids(recipeRows) \ Ids(recipeRows') :
               \A i \in 1..Len(ingredientRows') : ingredientRows'[i].recipe_id # rid)
           /\ (\A fid \in Ids(foodRows) \ Ids(foodRows') :
               \A i \in 1..Len(ingredientRows') : ingredientRows'[i].food_id # fid)]_vars

\* A Recipe that had an Ingredient is gone, and so is the Ingredient, while
\* the Food it used is still stored.
C11_RecipeDeletedWithIngredients ==
    /\ nextIngredient > 1
    /\ ingredientRows = <<>>
    /\ recipeRows = <<>>
    /\ nextRecipe > 1
    /\ foodRows # <<>>

\* C12 as stated: every stored Ingredient amount is a whole number of
\* thousandths between 0 and 999999.
C12_AmountNonNegativeInPrecision ==
    \A i \in 1..Len(ingredientRows) :
        /\ ingredientRows[i].amount >= 0
        /\ ingredientRows[i].amount < 10^MaxDigits

\* The digits of a stored amount before the decimal point.
Whole(a) == (IF a < 0 THEN 0 - a ELSE a) \div 10^DecimalPlaces

\* C12, amended: every stored Ingredient amount is a whole number of
\* thousandths of magnitude at most 999999, at most three digits before
\* the point; its sign is not restricted.
C12_AmountInPrecision ==
    \A i \in 1..Len(ingredientRows) :
        /\ ingredientRows[i].amount \in Int
        /\ Whole(ingredientRows[i].amount) < 10^(MaxDigits - DecimalPlaces)

\* A negative amount is stored: -1.250.
C12_NegativeAmountStored ==
    \E i \in 1..Len(ingredientRows) : ingredientRows[i].amount = 0 - 1250

\* C13: when the fetch of a miss in get_recipes_with_cache fails, the call
\* ends with that exception and nothing else: it holds no result, it has
\* issued no second Recipe query, and neither the raise nor the exit
\* changes the cache.
C13_FailurePropagates ==
    /\ [](\A p \in Procs :
            op[p] = "with_cache" /\ pc[p] = "raised"
            => /\ seen[p] = None
               /\ recipes[p] = None
               /\ queries[p] <= 1)
    /\ [][\A p \in Procs :
             /\ op[p] = "with_cache"
             /\ pc'[p] # pc[p]
             /\ (pc[p] = "raised" \/ pc'[p] = "raised")
             => /\ cache' = cache
                /\ pc[p] = "raised" => pc'[p] = "idle" /\ fetches' = fetches]_vars

\* One call has failed and ended; the key is still absent and the next
\* call has fetched again, and failed again.
C13_FailedThenFetchedAgain ==
    /\ done["with_cache"] = 1
    /\ fetches["with_cache"] = 2
    /\ cache.recipes = None
    /\ \E p \in Procs :
          /\ pc[p] = "raised"
          /\ \A q \in Procs \ {p} : pc[q] = "idle"

\* C14: no write to the store changes or removes the cache entry 'recipes';
\* once the entry is there and the cache does not evict it, the entry stays
\* the same and every call of get_recipes_with_cache that finds it returns
\* it, whatever the store holds by then.
C14_NoInvalidationOnWrite ==
    /\ [](\A p \in Procs :
            op[p] = "with_cache" /\ pc[p] = "ret" /\ seen[p] # None
            => recipes[p] = seen[p] /\ recipes[p] = cache.recipes)
    /\ [][/\ storeVars' # storeVars => cache' = cache
          /\ cache.recipes # None => cache'.recipes = cache.recipes]_vars

\* The entry was populated from the empty store, a Recipe has been stored
\* since, and a later call returns the populated list.
C14_StaleSnapshotReturned ==
    /\ recipeRows # <<>>
    /\ \E p \in Procs :
          /\ op[p] = "with_cache"
          /\ pc[p] = "ret"
          /\ seen[p] = Some(<<>>)
          /\ recipes[p] = Some(<<>>)

\* C15: get_recipes_without_cache and the page handler never test, read or
\* write the cache entry 'recipes': what they return or render comes from a
\* fetch of their own, also while the entry is populated.
C15_NeverLayered ==
    /\ [](\A p \in Procs :
            op[p] \in {"without_cache", "view"}
            => /\ pc[p] \notin {"test", "get", "set"}
               /\ seen[p] = None
               /\ pc[p] \in {"ret", "render"} => queries[p] >= 1)
    /\ [][\A p \in Procs :
             op'[p] \in {"without_cache", "view"} /\ pc'[p] # pc[p]
             => cache'.recipes = cache.recipes]_vars

\* The data cache holds 'recipes'; a request has been rendered from a fetch
\* and a call of the reader without cache is about to return a fetched list.
C15_FetchedBesidePopulatedCache ==
    /\ cache.recipes # None
    /\ \E p \in Procs :
          op[p] = "view" /\ pc[p] = "respond" /\ queries[p] = 1
    /\ \E p \in Procs :
          op[p] = "without_cache" /\ pc[p] = "ret" /\ queries[p] = 1

\* C16: one fetch loads the recipes, their ingredients and the ingredients'
\* foods together: it does not fail, it costs at most one round-trip per
\* table, and reading the food names afterwards costs none.
C16_EagerLoading ==
    \A p \in Procs :
        /\ pc[p] # "raised"
        /\ pc[p] \in {"set", "ret"} /\ seen[p] = None
           => /\ queries[p] <= Cardinality(Tables)
              /\ FoodReads(recipes[p][1]) = 0

\* C17: what get_recipes_with_cache returns is a sequence and never None,
\* also when the entry 'recipes' goes between the membership test and the
\* cache read.
C17_NeverReturnsNone ==
    \A p \in Procs :
        op[p] = "with_cache" /\ pc[p] = "ret"
        => /\ recipes[p] # None
           /\ DOMAIN recipes[p][1] = 1..Len(recipes[p][1])

====
